---- MODULE Spec2Model ----
(***************************************************************************)
(* eonapi: the SQLite consumption store (eonapi/database.py) and the       *)
(* export --store sync pass built on it (eonapi/cli.py).                    *)
(*                                                                         *)
(* Time is counted in whole hours of wall-clock time.  An ISO-8601 text is  *)
(* modelled by the tuple of its fixed-width fields: <<>> is the empty       *)
(* string, <<t>> the text of local hour t without a UTC offset             *)
(* (datetime.isoformat() of a naive datetime), <<t, o>> the text of local   *)
(* hour t followed by the offset suffix "+0o:00".                          *)
(***************************************************************************)
EXTENDS Integers, Sequences, FiniteSets, TLC

VARIABLES
    remote,     \* the remote account: its readings and its meters
    args,       \* the command line: export or stats, --days, --meter, --store
    table,      \* rows of the consumption table, in rowid order
    clock,      \* the host's wall clock (what datetime.now() returns)
    last,       \* the last call of a method of the database and what it returned
    pc,         \* where the export command is
    pass,       \* the locals of the running export command
    peers       \* export commands of several processes on one database file

vars == <<remote, args, table, clock, last, pc, pass, peers>>

----------------------------------------------------------------------------
(* Bounds of the model *)

\* longest list of records handed to store_records
MaxLen == 2
\* calls of store_records a caller makes, one per hour from hour 0
MaxCalls == 2
\* last hour the wall clock reaches while export runs are followed
MaxClock == 4

----------------------------------------------------------------------------
(* Program constants *)

\* timedelta(days=1), in hours
HoursPerDay == 24
\* the default of --days
DefaultDays == 30

----------------------------------------------------------------------------
(* ISO-8601 texts and datetimes *)

EmptyText == <<>>

Stamp(t, o) == <<t, o>>

Naive(t) == <<t>>

\* The order of SQLite's BINARY collation on the rendered texts: a proper
\* prefix sorts first, fixed-width fields compare like their numbers.
RECURSIVE TextLess(_, _)
TextLess(a, b) ==
    IF Len(b) = 0 THEN FALSE
    ELSE IF Len(a) = 0 THEN TRUE
    ELSE IF Head(a) # Head(b) THEN Head(a) < Head(b)
    ELSE TextLess(Tail(a), Tail(b))

TextLeq(a, b) == a = b \/ TextLess(a, b)

\* a value absent (Python's None), and a value present
None == [none |-> TRUE]

Some(x) == [val |-> x]

----------------------------------------------------------------------------
(* The records the fetch collaborator supplies: dicts that may lack keys *)

\* the end of the interval that starts at s
EndOf(s) == Stamp(s[1] + 1, s[2])

Reading(s, v) == [startAt |-> s, endAt |-> EndOf(s), value |-> v]

\* What the caller of the store can hand to it: the readings a remote account
\* holds and its meters.  The first account re-reads an interval with other
\* fields and under the other meter type, the second holds readings across a
\* change of UTC offset for two meters, the third holds a value that is no
\* number and a meter whose serial is empty, the fourth has a single meter
\* and a database file that may hold one of its readings from an earlier run.
Remotes ==
    {[records |-> {Reading(Stamp(1, 0), "1.5"), [startAt |-> Stamp(1, 0)],
                   Reading(Stamp(0, 0), "0.5")},
      meters  |-> {[serial |-> "M1", type |-> "electricity"],
                   [serial |-> "M1", type |-> "gas"]},
      stored  |-> {}],
     [records |-> {Reading(Stamp(0, 1), "0.5"), Reading(Stamp(1, 0), "1.5"),
                   Reading(Stamp(1, 1), "1.5")},
      meters  |-> {[serial |-> "M1", type |-> "electricity"],
                   [serial |-> "M2", type |-> "gas"]},
      stored  |-> {}],
     [records |-> {Reading(Stamp(1, 0), "0.5"), Reading(Stamp(2, 0), "1.5"),
                   Reading(Stamp(0, 0), "n/a")},
      meters  |-> {[serial |-> "", type |-> "electricity"],
                   [serial |-> "M1", type |-> "electricity"]},
      stored  |-> {}],
     [records |-> {Reading(Stamp(0, 0), "0.5"), Reading(Stamp(1, 0), "0.5"),
                   Reading(Stamp(5, 0), "1.5")},
      meters  |-> {[serial |-> "M1", type |-> "gas"]},
      stored  |-> {Reading(Stamp(0, 0), "0.5"), Reading(Stamp(5, 0), "1.5")}]}

Serials == {m.serial : m \in UNION {w.meters : w \in Remotes}}

RECURSIVE SeqsUpTo(_, _)
SeqsUpTo(S, n) ==
    IF n = 0 THEN {<<>>}
    ELSE LET shorter == SeqsUpTo(S, n - 1)
         IN  shorter \cup {Append(q, x) : q \in {r \in shorter : Len(r) = n - 1}, x \in S}

Batches(records) == SeqsUpTo(records, MaxLen)

\* record.get(key, default)
Get(record, key, default) ==
    IF key \in DOMAIN record THEN record[key] ELSE default

\* float(): the number a value denotes, in halves of a kWh; a text that is no
\* number raises ValueError
Float(v) ==
    CASE v = "0.5" -> [ok |-> TRUE, val |-> 1]
      [] v = "1.5" -> [ok |-> TRUE, val |-> 3]
      [] v = "0"   -> [ok |-> TRUE, val |-> 0]
      [] OTHER     -> [ok |-> FALSE, val |-> 0]

----------------------------------------------------------------------------
(* ConsumptionDatabase *)

\* a unique constraint that is not enforced
UniqueOff(rows, meter_serial, interval_start) == FALSE

\* a unique constraint on interval_start alone
UniqueByStart(rows, meter_serial, interval_start) ==
    \E i \in DOMAIN rows : rows[i].interval_start = interval_start

\* UNIQUE(meter_serial, interval_start): a row to insert violates it when a
\* stored row has both its values
UniqueViolated(rows, meter_serial, interval_start) ==
    \E i \in DOMAIN rows :
        /\ rows[i].meter_serial = meter_serial
        /\ rows[i].interval_start = interval_start

\* the row an INSERT adds; AUTOINCREMENT numbers the rows as they come
NewRow(rows, meter_serial, meter_type, interval_start, interval_end, kwh, created_at) ==
    [id |-> Len(rows) + 1,
     meter_serial |-> meter_serial,
     meter_type |-> meter_type,
     interval_start |-> interval_start,
     interval_end |-> interval_end,
     consumption_kwh |-> kwh,
     created_at |-> created_at]

\* INSERT OR REPLACE: the stored row of the key gives way to the new one
InsertOrReplace(rows, meter_serial, meter_type, interval_start, interval_end, kwh, created_at) ==
    LET kept == SelectSeq(rows, LAMBDA r : ~(/\ r.meter_serial = meter_serial
                                             /\ r.interval_start = interval_start))
    IN  [integrity_error |-> FALSE,
         rows |-> Append(kept, NewRow(rows, meter_serial, meter_type, interval_start,
                                      interval_end, kwh, created_at))]

\* INSERT INTO consumption ... VALUES (...): the rows after it, or the
\* IntegrityError of the constraint
Insert(rows, meter_serial, meter_type, interval_start, interval_end, kwh, created_at) ==
    IF UniqueViolated(rows, meter_serial, interval_start)
    THEN [integrity_error |-> TRUE, rows |-> rows]
    ELSE [integrity_error |-> FALSE,
          rows |-> Append(rows, NewRow(rows, meter_serial, meter_type, interval_start,
                                       interval_end, kwh, created_at))]

\* a loop body that counts the record as inserted before it knows
StoreOneCountsAll(run, record, meter_serial, meter_type, created_at) ==
    LET kwh == Float(Get(record, "value", "0"))
        ins == Insert(run.rows, meter_serial, meter_type,
                      Get(record, "startAt", EmptyText),
                      Get(record, "endAt", EmptyText), kwh.val, created_at)
    IN  IF ~kwh.ok THEN [run EXCEPT !.raised = TRUE]
        ELSE [run EXCEPT !.rows = ins.rows, !.inserted = @ + 1]

\* a loop body that lets the IntegrityError of a stored key end the call
StoreOneDuplicateFatal(run, record, meter_serial, meter_type, created_at) ==
    LET kwh == Float(Get(record, "value", "0"))
        ins == Insert(run.rows, meter_serial, meter_type,
                      Get(record, "startAt", EmptyText),
                      Get(record, "endAt", EmptyText), kwh.val, created_at)
    IN  IF ~kwh.ok \/ ins.integrity_error THEN [run EXCEPT !.raised = TRUE]
        ELSE [run EXCEPT !.rows = ins.rows, !.inserted = @ + 1]

\* a loop body that writes the record over the stored row of its key and
\* counts it as skipped
StoreOneUpsert(run, record, meter_serial, meter_type, created_at) ==
    LET kwh == Float(Get(record, "value", "0"))
        ins == Insert(run.rows, meter_serial, meter_type,
                      Get(record, "startAt", EmptyText),
                      Get(record, "endAt", EmptyText), kwh.val, created_at)
        ups == InsertOrReplace(run.rows, meter_serial, meter_type,
                               Get(record, "startAt", EmptyText),
                               Get(record, "endAt", EmptyText), kwh.val, created_at)
    IN  IF ~kwh.ok THEN [run EXCEPT !.raised = TRUE]
        ELSE IF ins.integrity_error THEN [run EXCEPT !.rows = ups.rows, !.skipped = @ + 1]
        ELSE [run EXCEPT !.rows = ins.rows, !.inserted = @ + 1]

\* the body of the for loop of store_records: run holds the rows the
\* connection sees and the two counters; an exception other than
\* IntegrityError leaves the loop
StoreOne(run, record, meter_serial, meter_type, created_at) ==
    LET kwh == Float(Get(record, "value", "0"))
        ins == Insert(run.rows, meter_serial, meter_type,
                      Get(record, "startAt", EmptyText),
                      Get(record, "endAt", EmptyText), kwh.val, created_at)
    IN  IF ~kwh.ok THEN [run EXCEPT !.raised = TRUE]
        ELSE IF ins.integrity_error THEN [run EXCEPT !.skipped = @ + 1]
        ELSE [run EXCEPT !.rows = ins.rows, !.inserted = @ + 1]

\* a loop that ends at the first record skipped
RECURSIVE StoreLoopStopsAtSkip(_, _, _, _, _, _)
StoreLoopStopsAtSkip(run, records, i, meter_serial, meter_type, created_at) ==
    IF i > Len(records) \/ run.raised \/ run.skipped > 0 THEN run
    ELSE StoreLoopStopsAtSkip(StoreOne(run, records[i], meter_serial, meter_type, created_at),
                              records, i + 1, meter_serial, meter_type, created_at)

\* the for loop of store_records from record i on
RECURSIVE StoreLoop(_, _, _, _, _, _)
StoreLoop(run, records, i, meter_serial, meter_type, created_at) ==
    IF i > Len(records) \/ run.raised THEN run
    ELSE StoreLoop(StoreOne(run, records[i], meter_serial, meter_type, created_at),
                   records, i + 1, meter_serial, meter_type, created_at)

\* a store_records that does not catch IntegrityError
StoreRecordsUncaught(rows, records, meter_serial, meter_type, created_at) ==
    LET run == StoreLoop([raised |-> FALSE, rows |-> rows, inserted |-> 0, skipped |-> 0],
                         records, 1, meter_serial, meter_type, created_at)
    IN  IF run.raised \/ run.skipped > 0
        THEN [raised |-> TRUE, rows |-> rows, inserted |-> 0, skipped |-> 0]
        ELSE run

\* a store_records that deletes the rows of the series before it inserts
StoreRecordsReplaceSeries(rows, records, meter_serial, meter_type, created_at) ==
    LET kept == SelectSeq(rows, LAMBDA r : r.meter_serial # meter_serial)
        run == StoreLoop([raised |-> FALSE, rows |-> kept, inserted |-> 0, skipped |-> 0],
                         records, 1, meter_serial, meter_type, created_at)
    IN  IF run.raised
        THEN [raised |-> TRUE, rows |-> rows, inserted |-> 0, skipped |-> 0]
        ELSE run

\* a store_records that refuses an empty list
StoreRecordsEmptyRaises(rows, records, meter_serial, meter_type, created_at) ==
    LET run == StoreLoop([raised |-> FALSE, rows |-> rows, inserted |-> 0, skipped |-> 0],
                         records, 1, meter_serial, meter_type, created_at)
    IN  IF run.raised \/ records = <<>>
        THEN [raised |-> TRUE, rows |-> rows, inserted |-> 0, skipped |-> 0]
        ELSE run

\* a store_records that commits what it inserted when an exception leaves it
StoreRecordsCommitsPart(rows, records, meter_serial, meter_type, created_at) ==
    LET run == StoreLoop([raised |-> FALSE, rows |-> rows, inserted |-> 0, skipped |-> 0],
                         records, 1, meter_serial, meter_type, created_at)
    IN  IF run.raised
        THEN [raised |-> TRUE, rows |-> run.rows, inserted |-> 0, skipped |-> 0]
        ELSE run

\* store_records: the connection commits when the loop ends and rolls the
\* transaction back when an exception leaves the with block
StoreRecords(rows, records, meter_serial, meter_type, created_at) ==
    LET run == StoreLoop([raised |-> FALSE, rows |-> rows, inserted |-> 0, skipped |-> 0],
                         records, 1, meter_serial, meter_type, created_at)
    IN  IF run.raised
        THEN [raised |-> TRUE, rows |-> rows, inserted |-> 0, skipped |-> 0]
        ELSE run

\* the first row of ... ORDER BY interval_start DESC
RECURSIVE FirstDesc(_, _)
FirstDesc(rows, best) ==
    IF rows = <<>> THEN best
    ELSE FirstDesc(Tail(rows),
                   IF TextLess(best.interval_start, Head(rows).interval_start)
                   THEN Head(rows) ELSE best)

\* a WHERE clause that does not look at the serial
WhereSerialAll(rows, meter_serial) == rows

\* WHERE meter_serial = ?
WhereSerial(rows, meter_serial) ==
    SelectSeq(rows, LAMBDA r : r.meter_serial = meter_serial)

\* get_latest_interval: SELECT ... WHERE meter_serial = ? ORDER BY
\* interval_start DESC LIMIT 1, and None when no row comes back
GetLatestInterval(rows, meter_serial) ==
    LET result == WhereSerial(rows, meter_serial)
    IN  IF result = <<>> THEN None
        ELSE Some(FirstDesc(Tail(result), Head(result)).interval_start)

\* the truth value Python gives an optional string, and an optional text
TruthyStr(o) == o # None /\ o.val # ""

TruthyText(o) == o # None /\ o.val # EmptyText

\* get_record_count(meter_serial): a falsy serial adds no WHERE clause
GetRecordCount(rows, meter_serial) ==
    IF TruthyStr(meter_serial)
    THEN Len(WhereSerial(rows, meter_serial.val))
    ELSE Len(rows)

\* datetime.isoformat(): a naive datetime has no offset suffix
IsoFormat(dt) == IF dt.tz = None THEN Naive(dt.hour) ELSE Stamp(dt.hour, dt.tz.val)

\* the WHERE clause of get_all_records: a filter that is None or an empty
\* string adds no condition, and a bound is compared as its isoformat text
Selected(row, meter_serial, start_date, end_date) ==
    /\ TruthyStr(meter_serial) => row.meter_serial = meter_serial.val
    /\ start_date # None => TextLeq(IsoFormat(start_date.val), row.interval_start)
    /\ end_date # None => TextLeq(row.interval_start, IsoFormat(end_date.val))

\* ORDER BY interval_start: the lists of the rows S in ascending order of the
\* texts; rows of equal interval_start come in any order
RECURSIVE Orders(_, _)
Orders(rows, S) ==
    IF S = {} THEN {<<>>}
    ELSE UNION {{<<rows[i]>> \o rest : rest \in Orders(rows, S \ {i})} :
                  i \in {i \in S : \A j \in S :
                            TextLeq(rows[i].interval_start, rows[j].interval_start)}}

\* get_all_records: the lists it may return
GetAllRecords(rows, meter_serial, start_date, end_date) ==
    Orders(rows, {i \in DOMAIN rows : Selected(rows[i], meter_serial, start_date, end_date)})

\* an initialisation that drops the table and creates it again
InitDatabaseDrop(rows) == <<>>

\* _init_database: CREATE TABLE IF NOT EXISTS leaves an existing table alone
InitDatabase(rows) == rows

----------------------------------------------------------------------------
(* datetimes *)

\* a datetime: its wall-clock hour and its UTC offset, None when it is naive
Now(c) == [hour |-> c, tz |-> None]

\* a parse that drops the offset suffix
IsoParseNaive(text) == [hour |-> text[1], tz |-> None]

\* dateutil's isoparse of a text with or without an offset suffix
IsoParse(text) ==
    IF Len(text) = 2
    THEN [hour |-> text[1], tz |-> Some(text[2])]
    ELSE [hour |-> text[1], tz |-> None]

\* dt + timedelta(days=days)
PlusDays(dt, days) == [dt EXCEPT !.hour = @ + HoursPerDay * days]

\* dt - timedelta(days=days)
MinusDays(dt, days) == [dt EXCEPT !.hour = @ - HoursPerDay * days]

----------------------------------------------------------------------------
(* fetch_data up to the call of get_consumption_data *)

\* the meter selection: by --meter, the single meter, or the user's choice
\* at the prompt
SelectMeter(meters, meter_serial, choice) ==
    IF TruthyStr(meter_serial)
    THEN IF choice.serial = meter_serial.val THEN Some(choice) ELSE None
    ELSE Some(choice)

\* a date range that reads the latest stored interval and starts --days back
\* all the same
PlanWindowByDays(rows, database, serial, days, now) ==
    [end_date |-> now,
     latest   |-> IF database THEN GetLatestInterval(rows, serial) ELSE None,
     start_date |-> MinusDays(now, days)]

\* a date range that, when an interval is stored, starts now
PlanWindowFromNow(rows, database, serial, days, now) ==
    LET end_date == now
        latest_interval == IF database THEN GetLatestInterval(rows, serial) ELSE None
    IN  [end_date |-> end_date,
         latest   |-> latest_interval,
         start_date |-> IF database /\ TruthyText(latest_interval)
                        THEN end_date
                        ELSE MinusDays(end_date, days)]

\* a date range that resumes from the latest stored interval with or without
\* a database given
PlanWindowAlwaysResumes(rows, database, serial, days, now) ==
    LET end_date == now
        latest_interval == GetLatestInterval(rows, serial)
    IN  [end_date |-> end_date,
         latest   |-> latest_interval,
         start_date |-> IF TruthyText(latest_interval)
                        THEN IsoParse(latest_interval.val)
                        ELSE MinusDays(end_date, days)]

\* the date range: end_date, the latest stored interval when a database is
\* given, start_date
PlanWindow(rows, database, serial, days, now) ==
    LET end_date == now
        latest_interval == IF database THEN GetLatestInterval(rows, serial) ELSE None
    IN  [end_date |-> end_date,
         latest   |-> latest_interval,
         start_date |-> IF database /\ TruthyText(latest_interval)
                        THEN IsoParse(latest_interval.val)
                        ELSE MinusDays(end_date, days)]

----------------------------------------------------------------------------
(* The state machine *)

NoCall == [op |-> "none"]

\* an exception: its class and the pieces of its message
Exc(type, msg) == [type |-> type, msg |-> msg]

ClickException(msg) == Exc("ClickException", <<msg>>)

\* what a call of the api may raise: an error of the transport, or the
\* interrupt of the user
FetchFailures == {Exc("ConnectionError", <<"timeout">>), Exc("KeyboardInterrupt", <<>>)}

\* the except clauses of export: a ClickException is raised again, any other
\* Exception becomes a ClickException of its message; a KeyboardInterrupt is
\* no Exception and passes through
ExportExcept(e) ==
    IF e.type \in {"ClickException", "KeyboardInterrupt"} THEN e
    ELSE Exc("ClickException", <<"Error: ">> \o e.msg)

\* the locals of export before it starts; before holds the rows of the table
\* when the command began, raised the exception as it was raised, error the
\* exception that leaves export
NoPass ==
    [events |-> <<>>, before |-> <<>>, database |-> "none", selected |-> None,
     end_date |-> None, latest |-> None, start_date |-> None, request |-> None,
     consumption |-> None, result |-> None, raised |-> None, error |-> None]

\* the locals of export when exception e leaves it after some more events:
\* the frames of fetch_data and of the try block are gone
Failed(p, events, e) ==
    [NoPass EXCEPT !.events = p.events \o events,
                   !.before = p.before,
                   !.database = p.database,
                   !.raised = Some(e),
                   !.error = Some(ExportExcept(e))]

\* the command lines followed
Args ==
    {[command |-> "export", days |-> d, meter |-> None, store |-> TRUE] : d \in {-1, 0, 7}}
    \cup {[command |-> "export", days |-> 7, meter |-> Some("M1"), store |-> TRUE],
          [command |-> "export", days |-> 7, meter |-> Some("M9"), store |-> TRUE],
          [command |-> "export", days |-> 1, meter |-> None, store |-> FALSE],
          [command |-> "stats", days |-> 1, meter |-> None, store |-> FALSE]}

\* the database file at the start: new, or holding one reading stored by an
\* earlier run at hour 0
InitialTables(account) ==
    {<<>>} \cup {StoreRecords(<<>>, <<r>>, m.serial, m.type, 0).rows :
                    r \in account.stored, m \in account.meters}

\* no other process uses the database file
NoPeers == [lock |-> 0, before |-> <<>>, proc |-> <<>>]

Init ==
    /\ remote \in Remotes
    /\ args = [command |-> "export", days |-> DefaultDays, meter |-> None, store |-> TRUE]
    /\ table \in InitialTables(remote)
    /\ clock = 0
    /\ last = NoCall
    /\ pc = "idle"
    /\ pass = NoPass
    /\ peers = NoPeers

InitSync ==
    /\ remote \in Remotes
    /\ args \in Args
    /\ table \in InitialTables(remote)
    /\ clock = 0
    /\ last = NoCall
    /\ pc = "idle"
    /\ pass = NoPass
    /\ peers = NoPeers

\* what a call of store_records leaves in last
CallRecord(records, meter, created_at, before, r) ==
    [op |-> "store_records",
     records |-> records,
     meter_serial |-> meter.serial,
     meter_type |-> meter.type,
     created_at |-> created_at,
     before |-> before,
     raised |-> r.raised,
     inserted |-> r.inserted,
     skipped |-> r.skipped]

\* a caller's db.store_records(records, meter_serial, meter_type)
CallStoreRecords ==
    /\ pc = "idle"
    /\ clock < MaxCalls
    /\ \E records \in Batches(remote.records), meter \in remote.meters :
         LET r == StoreRecords(table, records, meter.serial, meter.type, clock)
         IN  /\ table' = r.rows
             /\ last' = CallRecord(records, meter, clock, table, r)
    /\ clock' = clock + 1
    /\ UNCHANGED <<remote, args, peers, pc, pass>>

\* a caller's ConsumptionDatabase(db_path) on the path in use
CallInitDatabase ==
    /\ pc = "idle"
    /\ table' = InitDatabase(table)
    /\ last' = [op |-> "init", before |-> table]
    /\ UNCHANGED <<remote, args, peers, clock, pc, pass>>

\* the filters a caller passes to get_all_records
SerialFilters == {None} \cup {Some(s) : s \in Serials \cup {""}}

DateFilters ==
    {None, Some([hour |-> 1, tz |-> None]), Some([hour |-> 1, tz |-> Some(0)])}

\* a caller's db.get_all_records(meter_serial, start_date, end_date), the last
\* call it makes
CallGetAllRecords ==
    /\ pc = "idle"
    /\ pc' = "queried"
    /\ \E meter_serial \in SerialFilters, start_date \in DateFilters, end_date \in DateFilters :
         \E result \in GetAllRecords(table, meter_serial, start_date, end_date) :
            last' = [op |-> "get_all_records",
                     meter_serial |-> meter_serial,
                     start_date |-> start_date,
                     end_date |-> end_date,
                     result |-> result]
    /\ UNCHANGED <<remote, args, peers, table, clock, pass>>

\* an export that goes on to fetch_data when the database does not open
ExportBeginOpensLate ==
    /\ pc \in {"idle", "done", "failed"}
    /\ \E credentials \in BOOLEAN, opens \in BOOLEAN :
         LET begun == [NoPass EXCEPT !.before = table]
         IN  IF ~credentials
             THEN /\ ~opens
                  /\ pc' = "failed"
                  /\ pass' = Failed(begun, <<>>, ClickException("Credentials not provided"))
                  /\ table' = table
             ELSE /\ args.store \/ opens
                  /\ pc' = "begun"
                  /\ pass' = [begun EXCEPT
                         !.events = IF args.store THEN <<"init_db">> ELSE <<>>,
                         !.database = IF ~args.store THEN "none"
                                      ELSE IF opens THEN "open" ELSE "unavailable"]
                  /\ table' = IF args.store /\ opens THEN InitDatabase(table) ELSE table
    /\ UNCHANGED <<remote, args, peers, clock, last>>

\* export and stats: the credentials, and the database when --store is given
ExportBegin ==
    /\ pc \in {"idle", "done", "failed"}
    /\ \E credentials \in BOOLEAN, opens \in BOOLEAN :
         LET begun == [NoPass EXCEPT !.before = table]
         IN  IF ~credentials
             THEN /\ ~opens
                  /\ pc' = "failed"
                  /\ pass' = Failed(begun, <<>>, ClickException("Credentials not provided"))
                  /\ table' = table
             ELSE IF args.store /\ ~opens
             THEN /\ pc' = "failed"
                  /\ pass' = Failed([begun EXCEPT !.database = "unavailable"], <<"init_db">>,
                                    Exc("OperationalError", <<"unable to open database file">>))
                  /\ table' = table
             ELSE /\ args.store \/ opens
                  /\ pc' = "begun"
                  /\ pass' = [begun EXCEPT
                         !.events = IF args.store THEN <<"init_db">> ELSE <<>>,
                         !.database = IF args.store THEN "open" ELSE "none"]
                  /\ table' = IF args.store THEN InitDatabase(table) ELSE table
    /\ UNCHANGED <<remote, args, peers, clock, last>>

\* fetch_data: login, account, meters, meter selection, date range, and the
\* call of get_consumption_data
FetchDataPlan ==
    /\ pc = "begun"
    /\ \E answer \in {"ok", "login_failed", "no_accounts", "no_meters", "aborted"},
          choice \in remote.meters :
         LET selected == SelectMeter(remote.meters, args.meter, choice)
             fail(events, msg) ==
                 /\ pc' = "failed"
                 /\ pass' = Failed(pass, events, ClickException(msg))
         IN  CASE answer = "login_failed" ->
                    fail(<<"login">>, "Authentication failed")
               [] answer = "no_accounts" ->
                    fail(<<"login", "get_accounts">>, "No accounts found")
               [] answer = "no_meters" ->
                    fail(<<"login", "get_accounts", "get_meters">>, "No meters found")
               [] answer = "aborted" ->
                    /\ ~TruthyStr(args.meter)
                    /\ Cardinality(remote.meters) > 1
                    /\ fail(<<"login", "get_accounts", "get_meters">>, "Aborted by user")
               [] OTHER ->
                    IF selected = None
                    THEN fail(<<"login", "get_accounts", "get_meters">>, "Meter not found")
                    ELSE LET plan == PlanWindow(table, args.store, selected.val.serial,
                                                args.days, Now(clock))
                         IN  /\ pc' = "fetching"
                             /\ pass' = [pass EXCEPT
                                    !.events = @ \o <<"login", "get_accounts", "get_meters">>
                                                 \o (IF args.store THEN <<"latest">> ELSE <<>>)
                                                 \o <<"fetch">>,
                                    !.selected = selected,
                                    !.end_date = Some(plan.end_date),
                                    !.latest = plan.latest,
                                    !.start_date = Some(plan.start_date),
                                    !.request = Some([start_date |-> plan.start_date,
                                                      end_date |-> plan.end_date])]
    /\ UNCHANGED <<remote, args, peers, table, clock, last>>

\* get_consumption_data returns the records it read
FetchReturn ==
    /\ pc = "fetching"
    /\ clock < MaxClock
    /\ \E consumption \in Batches(remote.records) :
         pass' = [pass EXCEPT !.consumption = Some(consumption)]
    /\ pc' = "fetched"
    /\ clock' = clock + 1
    /\ UNCHANGED <<remote, args, peers, table, last>>

\* a fetch that stores the pages it has read before it raises
FetchRaiseAfterStore ==
    /\ pc = "fetching"
    /\ pc' = "failed"
    /\ \E e \in FetchFailures, page \in Batches(remote.records) :
         /\ pass' = Failed(pass, <<>>, e)
         /\ table' = IF args.store
                      THEN StoreRecords(table, page, pass.selected.val.serial,
                                        pass.selected.val.type, clock).rows
                      ELSE table
    /\ UNCHANGED <<remote, args, peers, clock, last>>

\* a fetch_data that starts again from the login when the api has raised
FetchRaiseRetried ==
    /\ pc = "fetching"
    /\ pc' = "begun"
    /\ pass' = [NoPass EXCEPT !.events = IF args.store THEN <<"init_db">> ELSE <<>>,
                              !.before = pass.before,
                              !.database = pass.database]
    /\ UNCHANGED <<remote, args, peers, table, clock, last>>

\* get_consumption_data raises, or the user interrupts it
FetchRaise ==
    /\ pc = "fetching"
    /\ pc' = "failed"
    /\ \E e \in FetchFailures : pass' = Failed(pass, <<>>, e)
    /\ UNCHANGED <<remote, args, peers, table, clock, last>>

\* an export --store that reads the count before it stores
ExportStoreCountsFirst ==
    /\ pc = "fetched"
    /\ args.store
    /\ clock < MaxClock
    /\ LET meter == pass.selected.val
           total == GetRecordCount(table, Some(meter.serial))
           r == StoreRecords(table, pass.consumption.val, meter.serial, meter.type, clock)
           e == Exc("ValueError", <<"could not convert string to float">>)
       IN  /\ table' = r.rows
           /\ last' = CallRecord(pass.consumption.val, meter, clock, table, r)
           /\ IF r.raised
              THEN /\ pc' = "failed"
                   /\ pass' = Failed(pass, <<"store">>, e)
              ELSE /\ pc' = "done"
                   /\ pass' = [pass EXCEPT
                          !.events = @ \o <<"count", "store">>,
                          !.result = Some([inserted |-> r.inserted,
                                           skipped |-> r.skipped,
                                           total |-> total])]
    /\ clock' = clock + 1
    /\ UNCHANGED <<remote, args, peers>>

\* export --store: store_records, then get_record_count
ExportStore ==
    /\ pc = "fetched"
    /\ args.store
    /\ clock < MaxClock
    /\ LET meter == pass.selected.val
           r == StoreRecords(table, pass.consumption.val, meter.serial, meter.type, clock)
           e == Exc("ValueError", <<"could not convert string to float">>)
       IN  /\ table' = r.rows
           /\ last' = CallRecord(pass.consumption.val, meter, clock, table, r)
           /\ IF r.raised
              THEN /\ pc' = "failed"
                   /\ pass' = Failed(pass, <<"store">>, e)
              ELSE /\ pc' = "done"
                   /\ pass' = [pass EXCEPT
                          !.events = @ \o <<"store", "count">>,
                          !.result = Some([inserted |-> r.inserted,
                                           skipped |-> r.skipped,
                                           total |-> GetRecordCount(r.rows, Some(meter.serial))])]
    /\ clock' = clock + 1
    /\ UNCHANGED <<remote, args, peers>>

\* export --store, the user interrupting store_records inside its loop, after
\* any number of its INSERTs: the exception leaves the with block, the
\* connection rolls the transaction back, and the call never returns
ExportStoreInterrupted ==
    /\ pc = "fetched"
    /\ args.store
    /\ clock < MaxClock
    /\ pass.consumption.val # <<>>
    /\ pc' = "failed"
    /\ pass' = Failed(pass, <<"store">>, Exc("KeyboardInterrupt", <<>>))
    /\ clock' = clock + 1
    /\ UNCHANGED <<remote, args, peers, table, last>>

\* export without --store: the CSV rows
ExportCsv ==
    /\ pc = "fetched"
    /\ args.command = "export"
    /\ ~args.store
    /\ clock < MaxClock
    /\ pc' = "done"
    /\ pass' = [pass EXCEPT !.events = @ \o <<"csv">>,
                             !.result = Some([exported |-> Len(pass.consumption.val)])]
    /\ clock' = clock + 1
    /\ UNCHANGED <<remote, args, peers, table, last>>

\* the sum of float(record.get("value", 0)) over the records
RECURSIVE TotalKwh(_)
TotalKwh(records) ==
    IF records = <<>> THEN 0
    ELSE Float(Get(Head(records), "value", "0")).val + TotalKwh(Tail(records))

\* stats: nothing to analyse when the fetch returned no record; else the
\* total and the peak of the values, a value that is no number raising
\* ValueError
Stats ==
    /\ pc = "fetched"
    /\ args.command = "stats"
    /\ clock < MaxClock
    /\ LET consumption_data == pass.consumption.val
           e == Exc("ValueError", <<"could not convert string to float">>)
       IN  IF consumption_data = <<>>
           THEN /\ pc' = "done"
                /\ pass' = [pass EXCEPT !.result = Some([analysed |-> 0])]
           ELSE IF \E i \in DOMAIN consumption_data :
                       ~Float(Get(consumption_data[i], "value", "0")).ok
           THEN /\ pc' = "failed"
                /\ pass' = Failed(pass, <<"stats">>, e)
           ELSE /\ pc' = "done"
                /\ pass' = [pass EXCEPT
                       !.events = @ \o <<"stats">>,
                       !.result = Some([analysed |-> Len(consumption_data),
                                        total_kwh |-> TotalKwh(consumption_data)])]
    /\ clock' = clock + 1
    /\ UNCHANGED <<remote, args, peers, table, last>>

Next == CallStoreRecords

Spec == Init /\ [][Next]_vars

\* the callers of the database module
NextQuery ==
    \/ CallStoreRecords
    \/ CallInitDatabase
    \/ CallGetAllRecords

SpecQuery == Init /\ [][NextQuery]_vars

NextSync ==
    \/ ExportBegin
    \/ FetchDataPlan
    \/ FetchReturn
    \/ FetchRaise
    \/ ExportStore
    \/ ExportStoreInterrupted
    \/ ExportCsv
    \/ Stats

SpecSync == InitSync /\ [][NextSync]_vars

\* the one export command of a process
ExportOnce == pc = "idle" /\ ExportBegin

NextPass ==
    \/ ExportOnce
    \/ FetchDataPlan
    \/ FetchReturn
    \/ FetchRaise
    \/ ExportStore
    \/ ExportStoreInterrupted
    \/ ExportCsv
    \/ Stats

\* One export command, run by asyncio.run to its end: the awaited call of
\* get_consumption_data returns or raises in the end, and the statements of
\* export that follow it are executed.  Nothing is assumed of the steps up to
\* the meter selection, where the prompt is repeated while the user answers
\* with a number that is not listed.
SpecPass ==
    /\ InitSync
    /\ [][NextPass]_vars
    /\ WF_vars(FetchReturn \/ FetchRaise)
    /\ WF_vars(ExportStore \/ ExportStoreInterrupted)
    /\ WF_vars(ExportCsv)
    /\ WF_vars(Stats)

----------------------------------------------------------------------------
(* Two export --store commands, each in a process of its own, on one database
   file.  Each connection reads what is committed.  The first INSERT of a
   store_records takes the write lock of the file and the commit or the
   rollback gives it back; an INSERT that finds the lock taken waits for it,
   and raises OperationalError when the wait exceeds the connection's
   timeout.  The commands followed are those whose calls of the api return. *)

Procs == {1, 2}

\* the locals of a command that has not started
NoProc ==
    [pc |-> "idle", selected |-> None, latest |-> None, request |-> None,
     consumption |-> None, result |-> None, error |-> None]

InitTwo ==
    /\ remote \in Remotes
    /\ args = [command |-> "export", days |-> 7, meter |-> None, store |-> TRUE]
    /\ table \in InitialTables(remote)
    /\ clock = 0
    /\ last = NoCall
    /\ pc = "idle"
    /\ pass = NoPass
    /\ peers = [lock |-> 0, before |-> table, proc |-> [p \in Procs |-> NoProc]]

\* fetch_data up to the call of get_consumption_data, for a meter of the
\* series the other command works on
TwoPlan ==
    /\ \E p \in Procs, choice \in remote.meters :
         /\ peers.proc[p].pc = "idle"
         /\ \A q \in Procs : peers.proc[q].selected # None =>
                                 peers.proc[q].selected.val.serial = choice.serial
         /\ LET plan == PlanWindow(table, args.store, choice.serial, args.days, Now(clock))
            IN  peers' = [peers EXCEPT !.proc[p] =
                            [@ EXCEPT !.pc = "fetching",
                                      !.selected = Some(choice),
                                      !.latest = plan.latest,
                                      !.request = Some([start_date |-> plan.start_date,
                                                        end_date |-> plan.end_date])]]
    /\ UNCHANGED <<remote, args, table, clock, last, pc, pass>>

\* get_consumption_data returns
TwoFetch ==
    /\ \E p \in Procs, consumption \in Batches(remote.records) :
         /\ peers.proc[p].pc = "fetching"
         /\ peers' = [peers EXCEPT !.proc[p] =
                         [@ EXCEPT !.pc = "fetched", !.consumption = Some(consumption)]]
    /\ UNCHANGED <<remote, args, table, clock, last, pc, pass>>

\* the loop of store_records comes to an INSERT: the list is not empty and the
\* value of its first record is a number
ReachesInsert(records) ==
    records # <<>> /\ Float(Get(Head(records), "value", "0")).ok

\* what store_records leaves of a command: the counts, or the exception
AfterStore(proc, r) ==
    IF r.raised
    THEN [proc EXCEPT !.pc = "failed",
                      !.error = Some(ExportExcept(Exc("ValueError",
                                        <<"could not convert string to float">>)))]
    ELSE [proc EXCEPT !.pc = "stored",
                      !.result = Some([inserted |-> r.inserted, skipped |-> r.skipped])]

\* store_records that executes no INSERT: it returns (0, 0) for an empty
\* list, and raises on a first value that is no number
TwoStoreNoInsert ==
    /\ \E p \in Procs :
         LET proc == peers.proc[p]
         IN  /\ proc.pc = "fetched"
             /\ ~ReachesInsert(proc.consumption.val)
             /\ peers' = [peers EXCEPT !.proc[p] =
                             AfterStore(proc, StoreRecords(table, proc.consumption.val,
                                                           proc.selected.val.serial,
                                                           proc.selected.val.type, clock))]
    /\ UNCHANGED <<remote, args, table, clock, last, pc, pass>>

\* the first INSERT of store_records takes the write lock
TwoInsert ==
    /\ \E p \in Procs :
         /\ peers.proc[p].pc = "fetched"
         /\ ReachesInsert(peers.proc[p].consumption.val)
         /\ peers.lock = 0
         /\ peers' = [peers EXCEPT !.lock = p, !.proc[p].pc = "storing"]
    /\ UNCHANGED <<remote, args, table, clock, last, pc, pass>>

\* the first INSERT of store_records finds the lock taken for longer than the
\* timeout: OperationalError, database is locked
TwoBusy ==
    /\ \E p \in Procs :
         /\ peers.proc[p].pc = "fetched"
         /\ ReachesInsert(peers.proc[p].consumption.val)
         /\ peers.lock \notin {0, p}
         /\ peers' = [peers EXCEPT !.proc[p] =
                         [@ EXCEPT !.pc = "failed",
                                   !.error = Some(ExportExcept(Exc("OperationalError",
                                                     <<"database is locked">>)))]]
    /\ UNCHANGED <<remote, args, table, clock, last, pc, pass>>

\* a store_records that inserts every record later than the latest interval
\* the command read and skips the others, without a unique constraint
TwoCommitByLatest ==
    /\ \E p \in Procs :
         LET proc == peers.proc[p]
             fresh == SelectSeq(proc.consumption.val,
                                LAMBDA record :
                                    \/ ~TruthyText(proc.latest)
                                    \/ TextLess(proc.latest.val,
                                                Get(record, "startAt", EmptyText)))
             r == StoreRecords(<<>>, fresh, proc.selected.val.serial,
                               proc.selected.val.type, clock)
         IN  /\ proc.pc = "storing"
             /\ peers.lock = p
             /\ table' = table \o r.rows
             /\ peers' = [peers EXCEPT
                            !.lock = 0,
                            !.proc[p] = AfterStore(proc,
                                [r EXCEPT !.skipped = Len(proc.consumption.val) - r.inserted])]
    /\ clock' = clock + 1
    /\ UNCHANGED <<remote, args, last, pc, pass>>

\* the rest of the loop of store_records, and its commit or its rollback
TwoCommit ==
    /\ \E p \in Procs :
         LET proc == peers.proc[p]
             r == StoreRecords(table, proc.consumption.val, proc.selected.val.serial,
                               proc.selected.val.type, clock)
         IN  /\ proc.pc = "storing"
             /\ peers.lock = p
             /\ table' = r.rows
             /\ peers' = [peers EXCEPT !.lock = 0, !.proc[p] = AfterStore(proc, r)]
    /\ clock' = clock + 1
    /\ UNCHANGED <<remote, args, last, pc, pass>>

\* get_record_count after store_records
TwoCount ==
    /\ \E p \in Procs :
         LET proc == peers.proc[p]
         IN  /\ proc.pc = "stored"
             /\ peers' = [peers EXCEPT !.proc[p] =
                    [proc EXCEPT
                        !.pc = "done",
                        !.result = Some([inserted |-> proc.result.val.inserted,
                                         skipped |-> proc.result.val.skipped,
                                         total |-> GetRecordCount(table,
                                                      Some(proc.selected.val.serial))])]]
    /\ UNCHANGED <<remote, args, table, clock, last, pc, pass>>

NextTwo ==
    \/ TwoPlan
    \/ TwoFetch
    \/ TwoStoreNoInsert
    \/ TwoInsert
    \/ TwoBusy
    \/ TwoCommit
    \/ TwoCount

SpecTwo == InitTwo /\ [][NextTwo]_vars

----------------------------------------------------------------------------
(* What the claims speak of *)

StartOf(record) == Get(record, "startAt", EmptyText)

\* the interval_start values a batch carries
KeysOf(records) == {StartOf(records[i]) : i \in DOMAIN records}

DistinctKeys(records) ==
    \A i, j \in DOMAIN records : StartOf(records[i]) = StartOf(records[j]) => i = j

\* every value of the batch is a number
Numeric(records) ==
    \A i \in DOMAIN records : Float(Get(records[i], "value", "0")).ok

\* the rows of a series, and the interval_start values stored for it
SeriesRows(rows, serial) == {i \in DOMAIN rows : rows[i].meter_serial = serial}

StoredKeys(rows, serial) == {rows[i].interval_start : i \in SeriesRows(rows, serial)}

Count(rows, serial) == Cardinality(SeriesRows(rows, serial))

\* a call of store_records has returned or raised
Called == last.op = "store_records"

Returned == Called /\ ~last.raised

\* this step is a call of store_records
CallStep == last' # last /\ last'.op = "store_records"

\* C1: the table never holds two rows with the same (meter_serial,
\* interval_start).
C1_UniqueKeys ==
    \A i, j \in DOMAIN table :
        (/\ table[i].meter_serial = table[j].meter_serial
         /\ table[i].interval_start = table[j].interval_start) => i = j

\* C1's case: a call met stored keys and the table holds several rows
C1_Witness ==
    /\ Returned
    /\ last.skipped > 0
    /\ last.inserted > 0
    /\ Len(table) >= 2

\* a batch of numbers with pairwise distinct keys, none stored for the series
FreshBatch(rows, records, serial) ==
    /\ Numeric(records)
    /\ DistinctKeys(records)
    /\ KeysOf(records) \cap StoredKeys(rows, serial) = {}

\* C2, first call: a fresh batch B returns (len(B), 0)
C2_First ==
    (CallStep /\ FreshBatch(last'.before, last'.records, last'.meter_serial))
    => /\ ~last'.raised
       /\ last'.inserted = Len(last'.records)
       /\ last'.skipped = 0

\* this step stores again, for the same series, the fresh batch the call
\* before it stored
SecondCall ==
    /\ Returned
    /\ FreshBatch(last.before, last.records, last.meter_serial)
    /\ CallStep
    /\ last'.records = last.records
    /\ last'.meter_serial = last.meter_serial

\* C2 as amended: a fresh batch B returns (len(B), 0), the call that
\* follows it with the same B for the same series returns (0, len(B)), and
\* after both calls the series counts len(B) rows more than before the first.
C2_Idempotent ==
    [][/\ C2_First
       /\ SecondCall =>
            /\ ~last'.raised
            /\ last'.inserted = 0
            /\ last'.skipped = Len(last.records)
            /\ Count(table', last.meter_serial)
                 = Count(last.before, last.meter_serial) + Len(last.records)]_vars

\* C2 as stated: ... and after both calls the series counts len(B) rows.
C2_Original ==
    [][/\ C2_First
       /\ SecondCall =>
            /\ ~last'.raised
            /\ last'.inserted = 0
            /\ last'.skipped = Len(last.records)
            /\ Count(table', last.meter_serial) = Len(last.records)]_vars

\* C2's case: a batch of two distinct keys was stored twice in a row
C2_Witness ==
    /\ Returned
    /\ Len(last.records) = 2
    /\ DistinctKeys(last.records)
    /\ last.inserted = 0
    /\ last.skipped = 2
    /\ \A i \in SeriesRows(last.before, last.meter_serial) :
           last.before[i].created_at = last.created_at - 1

\* the numbers of C3 for the last call: n keys stored for the series before
\* it, k keys of the batch among them, m keys of the batch not among them
N3 == Count(last.before, last.meter_serial)

K3 == Cardinality(KeysOf(last.records) \cap StoredKeys(last.before, last.meter_serial))

M3 == Cardinality(KeysOf(last.records) \ StoredKeys(last.before, last.meter_serial))

\* C3 as amended: on a series holding n keys, a batch B2 with k of its keys
\* stored and m not stored returns (m, len(B2) - m), which is (m, k) when
\* the keys of B2 are pairwise distinct, and leaves n + m rows.
C3_Overlap ==
    Returned =>
        /\ last.inserted = M3
        /\ last.skipped = Len(last.records) - M3
        /\ DistinctKeys(last.records) => last.skipped = K3
        /\ Count(table, last.meter_serial) = N3 + M3

\* C3 as stated: the second call returns (m, k) and leaves n + m rows.
C3_Original ==
    Returned =>
        /\ last.inserted = M3
        /\ last.skipped = K3
        /\ Count(table, last.meter_serial) = N3 + M3

\* C3's case: a batch with a stored key and a new key, on a series that held
\* one key
C3_Witness ==
    /\ Returned
    /\ DistinctKeys(last.records)
    /\ N3 = 1
    /\ K3 = 1
    /\ M3 = 1

\* C4: a call of store_records leaves every row stored before it as it was,
\* in every field.
C4_RowsKept ==
    Called =>
        /\ Len(table) >= Len(last.before)
        /\ \A i \in DOMAIN last.before : table[i] = last.before[i]

\* C4's case: a record met a stored row of its key that differs from it in
\* end, value, meter type and time of storing
C4_Witness ==
    /\ Returned
    /\ \E i \in DOMAIN last.records, j \in SeriesRows(last.before, last.meter_serial) :
         /\ last.before[j].interval_start = StartOf(last.records[i])
         /\ last.before[j].interval_end # Get(last.records[i], "endAt", EmptyText)
         /\ last.before[j].consumption_kwh # Float(Get(last.records[i], "value", "0")).val
         /\ last.before[j].meter_type # last.meter_type
         /\ last.before[j].created_at # last.created_at

\* record i of the last call's batch meets its key: stored before the call,
\* or carried by an earlier record of the batch
Collides(i) ==
    \/ StartOf(last.records[i]) \in StoredKeys(last.before, last.meter_serial)
    \/ \E j \in 1..(i - 1) : StartOf(last.records[j]) = StartOf(last.records[i])

\* C5: a call raises only when a value is no number, never for a collision;
\* a call that returns has counted one skip for each colliding record and
\* has a row for the key of every record, those after a collision too.
C5_CollisionHidden ==
    Called =>
        /\ last.raised => ~Numeric(last.records)
        /\ Numeric(last.records) => ~last.raised
        /\ ~last.raised =>
             /\ last.skipped = Cardinality({i \in DOMAIN last.records : Collides(i)})
             /\ \A i \in DOMAIN last.records :
                    StartOf(last.records[i]) \in StoredKeys(table, last.meter_serial)
             /\ \A i \in DOMAIN last.records :
                    ~Collides(i) =>
                        \E j \in SeriesRows(table, last.meter_serial) :
                            /\ j > Len(last.before)
                            /\ table[j].interval_start = StartOf(last.records[i])

\* C5's case: the first record of the batch collided and the second, a new
\* key, was inserted
C5_Witness ==
    /\ Returned
    /\ Len(last.records) = 2
    /\ Collides(1)
    /\ ~Collides(2)
    /\ last.inserted = 1
    /\ last.skipped = 1

\* the instant of a datetime in hours; a naive datetime is local time, and the
\* local offset is taken as zero
Instant(dt) == dt.hour - (IF dt.tz = None THEN 0 ELSE dt.tz.val)

\* what get_latest_interval does return: None exactly for a series without
\* rows, and otherwise a stored interval_start of the series that no stored
\* interval_start of the series follows in the order of the texts
LatestIsTextMax ==
    \A s \in Serials :
        LET latest == GetLatestInterval(table, s)
            stored == StoredKeys(table, s)
        IN  /\ latest = None <=> stored = {}
            /\ stored # {} =>
                 /\ latest.val \in stored
                 /\ \A t \in stored : TextLeq(t, latest.val)

\* C6: get_latest_interval returns None exactly for a series without rows,
\* and otherwise the latest interval_start stored for the series: no stored
\* interval_start of the series is a later instant, that of a record of the
\* call that just returned included.
C6_Latest ==
    \A s \in Serials :
        LET latest == GetLatestInterval(table, s)
            stored == StoredKeys(table, s)
        IN  /\ latest = None <=> stored = {}
            /\ stored # {} =>
                 /\ latest.val \in stored
                 /\ \A t \in stored :
                        Instant(IsoParse(t)) <= Instant(IsoParse(latest.val))

----------------------------------------------------------------------------
(* The date range of a pass with --store *)

\* a pass with --store has called get_consumption_data and awaits its answer
Fetching == pc = "fetching" /\ args.store

\* the series of the pass
PassSerial == pass.selected.val.serial

\* the greatest interval_start text stored for the series
MaxStored(rows, serial) ==
    CHOOSE t \in StoredKeys(rows, serial) :
        \A u \in StoredKeys(rows, serial) : TextLeq(u, t)

\* C7: when the store holds records for the series and T is their latest
\* interval_start, the request of a pass with --store has start_date = T (the
\* hour and the offset T is written with) and end_date = now, whatever --days is
C7_Resume ==
    (Fetching /\ StoredKeys(table, PassSerial) # {}) =>
        LET T == MaxStored(table, PassSerial)
        IN  /\ pass.request.val.start_date = [hour |-> T[1], tz |-> Some(T[2])]
            /\ pass.request.val.end_date = [hour |-> clock, tz |-> None]

\* C7's case: records are stored for the series, --days is negative, and the
\* request starts at the latest stored interval
C7_Witness ==
    /\ Fetching
    /\ args.days = -1
    /\ Cardinality(StoredKeys(table, PassSerial)) > 1
    /\ pass.request.val.start_date.hour = MaxStored(table, PassSerial)[1]
    /\ pass.request.val.start_date.hour # clock - HoursPerDay * args.days

\* C8: when the store holds no record for the series, the request of a pass
\* with --store has start_date = now - --days days and end_date = now
C8_Fallback ==
    (Fetching /\ StoredKeys(table, PassSerial) = {}) =>
        /\ pass.request.val.start_date = [hour |-> clock - HoursPerDay * args.days, tz |-> None]
        /\ pass.request.val.end_date = [hour |-> clock, tz |-> None]

\* C8's case: nothing is stored for the series, --days is 7, and the request
\* starts seven days before now
C8_Witness ==
    /\ Fetching
    /\ args.days = 7
    /\ StoredKeys(table, PassSerial) = {}
    /\ pass.request.val.start_date.hour = clock - 7 * HoursPerDay
    /\ pass.request.val.end_date.hour = clock

\* C9: the request of every pass with --store has start_date <= end_date, and
\* start_date = end_date when nothing is stored for the series and --days <= 0
C9_StartBeforeEnd ==
    Fetching =>
        /\ Instant(pass.request.val.start_date) <= Instant(pass.request.val.end_date)
        /\ (StoredKeys(table, PassSerial) = {} /\ args.days <= 0) =>
               pass.request.val.start_date = pass.request.val.end_date

\* C10: in a pass with --store get_latest_interval is read once, before the one
\* call of get_consumption_data, which is before the one call of store_records;
\* the request is the date range of the value read; and while the fetch is
\* awaited the store holds what it held at the read, no insert having come
\* since the pass began
C10_Order ==
    LET at(e) == {i \in DOMAIN pass.events : pass.events[i] = e}
        once(e) == Cardinality(at(e)) = 1
        before(e, f) == \A i \in at(e), j \in at(f) : i < j
        latest == pass.latest
    IN  (args.store /\ pc \in {"fetching", "fetched", "done"}) =>
            /\ once("latest") /\ once("fetch") /\ before("latest", "fetch")
            /\ Cardinality(at("store")) <= 1 /\ before("fetch", "store")
            /\ (pc = "done") = once("store")
            /\ pass.request.val.start_date =
                   IF latest # None /\ latest.val # EmptyText
                   THEN IsoParse(latest.val)
                   ELSE MinusDays(pass.end_date.val, args.days)
            /\ pass.request.val.end_date = pass.end_date.val
            /\ (pc \in {"fetching", "fetched"}) =>
                   /\ latest = GetLatestInterval(table, PassSerial)
                   /\ Called => last.created_at < pass.end_date.val.hour
            /\ (pc = "done") =>
                   /\ Called
                   /\ last.created_at > pass.end_date.val.hour
                   /\ last.records = pass.consumption.val

\* C10's case: a second pass of the same run has read a latest interval that
\* the first pass stored, fetched from it, and stored what the fetch returned
C10_Witness ==
    /\ args.store /\ pc = "done"
    /\ pass.events = <<"init_db", "login", "get_accounts", "get_meters",
                       "latest", "fetch", "store", "count">>
    /\ pass.latest # None
    /\ pass.end_date.val.hour > 0
    /\ pass.result.val.inserted > 0

----------------------------------------------------------------------------
(* The passes of export --store *)

\* a pass with --store has ended with a result
PassDone == pc = "done" /\ args.store

\* a pass has ended with an exception
PassFailed == pc = "failed"

Result(inserted, skipped, total) ==
    [inserted |-> inserted, skipped |-> skipped, total |-> total]

\* C11: a pass on an empty store whose fetch returns N records of distinct
\* keys reports (N, 0, N); a pass on the store such a pass left (N rows, all
\* of the series), whose fetch returns 2N records of distinct keys, those N
\* among them, reports (N, N, 2N).
C11_EndToEnd ==
    (PassDone /\ DistinctKeys(pass.consumption.val)) =>
        LET B == pass.consumption.val
            N == Len(pass.before)
        IN  /\ pass.before = <<>> => pass.result.val = Result(Len(B), 0, Len(B))
            /\ (/\ N > 0
                /\ SeriesRows(pass.before, PassSerial) = DOMAIN pass.before
                /\ StoredKeys(pass.before, PassSerial) \subseteq KeysOf(B)
                /\ Len(B) = 2 * N)
               => pass.result.val = Result(N, N, 2 * N)

\* C11's case: the second pass of a run, on the one row the first pass stored
\* in the empty store, has fetched that record and a new one
C11_Witness ==
    /\ PassDone
    /\ DistinctKeys(pass.consumption.val)
    /\ Len(pass.before) = 1
    /\ pass.before[1].created_at = 1
    /\ pass.before[1].meter_serial = PassSerial
    /\ pass.before[1].interval_start \in KeysOf(pass.consumption.val)
    /\ pass.result.val = Result(1, 1, 2)

\* C12: a pass with --store whose fetch returned no record ends with the
\* result (0, 0, total) and no exception; the table is the one the pass found,
\* and total is what get_record_count answered for the meter before the
\* pass, the number of rows of the series.
C12_EmptyFetch ==
    [][(pc = "fetched" /\ args.store /\ pass.consumption.val = <<>>) =>
          /\ pc' = "done"
          /\ pass'.error = None
          /\ table' = table
          /\ table' = pass.before
          /\ pass'.result.val =
                 Result(0, 0, GetRecordCount(pass.before, Some(PassSerial)))
          /\ PassSerial # "" =>
                 pass'.result.val.total = Count(pass.before, PassSerial)]_vars

\* C12's case: a pass on a table holding rows of the series has fetched no
\* record and reported them all
C12_Witness ==
    /\ PassDone
    /\ pass.consumption.val = <<>>
    /\ Count(pass.before, PassSerial) > 0
    /\ table = pass.before
    /\ pass.result.val = Result(0, 0, Count(pass.before, PassSerial))

\* the fetch of the running pass has not returned: the pass is before or in
\* the call, or an exception ended it before store_records was reached
FetchNotReturned ==
    \/ pc \in {"begun", "fetching"}
    \/ PassFailed /\ \A i \in DOMAIN pass.events : pass.events[i] # "store"

\* C13: while the fetch of a pass has not returned, and after the pass has
\* failed without its fetch returning, the table is the one the pass found;
\* a failed pass has an exception and no result; and store_records is called
\* only in a pass whose fetch has returned.
C13_FetchFailure ==
    /\ [](FetchNotReturned => table = pass.before)
    /\ [](PassFailed => (pass.error # None /\ pass.result = None))
    /\ [][(table' # table \/ last' # last) =>
             (pc = "fetched" /\ pass.consumption # None)]_vars
    /\ [][pc = "fetching" =>
             \/ pc' = "fetched" /\ pass'.consumption # None
             \/ pc' = "failed" /\ table' = pass.before /\ last' = last]_vars

\* C13's case: on a table holding rows, the fetch of a pass with --store has
\* raised; the pass has failed and the rows are those it found
C13_Witness ==
    /\ PassFailed
    /\ args.store
    /\ pass.raised = Some(Exc("ConnectionError", <<"timeout">>))
    /\ pass.events[Len(pass.events)] = "fetch"
    /\ Len(table) > 0
    /\ table = pass.before

\* the events of the running pass that are e
EventsOf(e) == {i \in DOMAIN pass.events : pass.events[i] = e}

\* what does hold of a pass: get_consumption_data is called at most once
FetchAtMostOnce == Cardinality(EventsOf("fetch")) <= 1

\* C14: when a call of the api has raised, the exception that leaves the pass
\* is the exception raised, and get_consumption_data is called at most once
\* in a pass.
C14_Unmodified ==
    /\ FetchAtMostOnce
    /\ (PassFailed /\ pass.raised # None /\ pass.raised.val \in FetchFailures) =>
           pass.error = pass.raised

\* the keys of the first k records of a batch
PrefixKeys(records, k) == {StartOf(records[i]) : i \in 1..k}

\* the rows of the series hold the first k records of the batch and no other
PrefixStored(rows, serial, records, k) ==
    /\ k \in 0..Len(records)
    /\ StoredKeys(rows, serial) = PrefixKeys(records, k)

\* the user has interrupted store_records in the running pass
StoreInterrupted ==
    /\ PassFailed
    /\ pass.raised = Some(Exc("KeyboardInterrupt", <<>>))
    /\ EventsOf("store") # {}

\* C15: a store_records interrupted in its loop leaves stored what was stored
\* before it; and when the series holds the first k records of a batch, for
\* any k, the store_records of a pass that fetched the batch returns, every
\* key of the batch is then stored exactly once, the records of the prefix are
\* reported as skipped (the k of them and no other when the keys of the batch
\* are distinct), and the others as inserted.
C15_Retry ==
    /\ [](StoreInterrupted => table = pass.before)
    /\ [][(pc = "fetched" /\ args.store /\ last' # last) =>
          \A k \in 0..Len(pass.consumption.val) :
            (/\ Numeric(pass.consumption.val)
             /\ PrefixStored(table, PassSerial, pass.consumption.val, k))
            => LET B == pass.consumption.val
                   new == KeysOf(B) \ PrefixKeys(B, k)
               IN  /\ pc' = "done"
                   /\ \A key \in KeysOf(B) :
                        Cardinality({i \in SeriesRows(table', PassSerial) :
                                        table'[i].interval_start = key}) = 1
                   /\ Count(table', PassSerial) = Cardinality(KeysOf(B))
                   /\ pass'.result.val.inserted = Cardinality(new)
                   /\ pass'.result.val.skipped = Len(B) - Cardinality(new)
                   /\ pass'.result.val.skipped >= k
                   /\ DistinctKeys(B) => pass'.result.val.skipped = k]_vars

\* C15's case: the series held the first record of a batch of two keys, stored
\* by an earlier pass of the run, and the pass that fetched the batch has
\* skipped the first record and inserted the second
C15_Witness ==
    /\ PassDone
    /\ Len(pass.consumption.val) = 2
    /\ DistinctKeys(pass.consumption.val)
    /\ PrefixStored(pass.before, PassSerial, pass.consumption.val, 1)
    /\ \A i \in SeriesRows(pass.before, PassSerial) : pass.before[i].created_at > 0
    /\ pass.result.val.inserted = 1
    /\ pass.result.val.skipped = 1
    /\ Count(table, PassSerial) = 2

\* C16: a pass whose database could not be opened has failed at once: the
\* exception has left export, nothing but the attempt to open has happened (no
\* login, no call of the api, no store_records), and the table is the one the
\* pass found.
C16_StoreUnavailable ==
    pass.database = "unavailable" =>
        /\ PassFailed
        /\ pass.events = <<"init_db">>
        /\ pass.error # None
        /\ pass.result = None
        /\ table = pass.before

\* C16's case: the database of a pass with --store did not open and the
\* OperationalError has left export as a ClickException
C16_Witness ==
    /\ args.store
    /\ pass.database = "unavailable"
    /\ PassFailed
    /\ pass.raised = Some(Exc("OperationalError", <<"unable to open database file">>))
    /\ pass.error = Some(Exc("ClickException", <<"Error: ", "unable to open database file">>))

\* C17: no step of a pass, failed passes and the initialisation of the
\* database on a path in use included, removes or changes a stored row: every
\* row of the table is the same row after the step, and no series counts
\* fewer rows.
C17_Immutable ==
    [][/\ Len(table') >= Len(table)
       /\ \A i \in DOMAIN table : table'[i] = table[i]
       /\ \A s \in Serials : Count(table', s) >= Count(table, s)]_vars

\* C17's case: rows stored by an earlier pass of the run are still there, as
\* they were, after a later pass has initialised the database again and failed
\* inside store_records
C17_Witness ==
    /\ PassFailed
    /\ pass.database = "open"
    /\ EventsOf("store") # {}
    /\ Len(table) >= 2
    /\ table = pass.before
    /\ \E i \in DOMAIN table : table[i].created_at > 0

----------------------------------------------------------------------------
(* The database opened again, and its queries *)

\* a second ConsumptionDatabase has just been constructed on the path
Reopened == last.op = "init"

\* C18: constructing a ConsumptionDatabase on a path that holds data leaves
\* the table as it was: the rows stored through the first instance are the
\* rows the second one reads, the count, the latest interval and the records
\* of every series are those before the construction, and a further
\* initialisation changes nothing.
C18_Reinit ==
    Reopened =>
        /\ table = last.before
        /\ InitDatabase(table) = table
        /\ GetRecordCount(table, None) = GetRecordCount(last.before, None)
        /\ \A s \in Serials :
             /\ GetRecordCount(table, Some(s)) = GetRecordCount(last.before, Some(s))
             /\ GetLatestInterval(table, s) = GetLatestInterval(last.before, s)
             /\ GetAllRecords(table, Some(s), None, None)
                    = GetAllRecords(last.before, Some(s), None, None)

\* C18's case: the database was opened again on a table of several rows of
\* two series, and they are all there
C18_Witness ==
    /\ Reopened
    /\ Len(last.before) >= 3
    /\ Cardinality({last.before[i].meter_serial : i \in DOMAIN last.before}) = 2
    /\ \A i \in DOMAIN last.before : i \in DOMAIN table /\ table[i] = last.before[i]

\* get_all_records has just answered
Queried == last.op = "get_all_records"

\* the instant a stored interval_start denotes
InstantOf(text) == Instant(IsoParse(text))

\* what does hold of get_all_records: it returns, once each, the rows that
\* have the serial when a non-empty serial is given and whose interval_start
\* text is not below the isoformat text of start_date and not above that of
\* end_date, in ascending order of the interval_start texts
QueryIsTextFilter ==
    Queried =>
        LET q == last
            kept == {i \in DOMAIN table :
                       /\ (q.meter_serial # None /\ q.meter_serial.val # "") =>
                              table[i].meter_serial = q.meter_serial.val
                       /\ q.start_date # None =>
                              TextLeq(IsoFormat(q.start_date.val), table[i].interval_start)
                       /\ q.end_date # None =>
                              TextLeq(table[i].interval_start, IsoFormat(q.end_date.val))}
        IN  /\ Len(q.result) = Cardinality(kept)
            /\ \A i \in kept : \E j \in DOMAIN q.result : q.result[j] = table[i]
            /\ \A i, j \in DOMAIN q.result :
                   i < j => TextLeq(q.result[i].interval_start, q.result[j].interval_start)

\* C19: the rows get_all_records returns are the stored rows that match the
\* serial given and the start bound and the end bound, every one of them, in
\* ascending order of interval_start: no row is returned before a row of an
\* earlier interval_start.
C19_Conjunctive ==
    Queried =>
        LET q == last
            matches(row) ==
                /\ q.meter_serial # None => row.meter_serial = q.meter_serial.val
                /\ q.start_date # None =>
                       TextLeq(IsoFormat(q.start_date.val), row.interval_start)
                /\ q.end_date # None =>
                       TextLeq(row.interval_start, IsoFormat(q.end_date.val))
        IN  /\ \A j \in DOMAIN q.result : matches(q.result[j])
            /\ \A i \in DOMAIN table :
                   matches(table[i]) => \E j \in DOMAIN q.result : q.result[j] = table[i]
            /\ \A i, j \in DOMAIN q.result :
                   i < j => InstantOf(q.result[i].interval_start)
                              <= InstantOf(q.result[j].interval_start)

\* C20: a stored row of the series asked for whose interval_start is the
\* instant of the start bound, or the instant of the end bound, and lies
\* within the bounds given, is returned.
C20_Inclusive ==
    Queried =>
        LET q == last
            t(row) == InstantOf(row.interval_start)
            within(row) ==
                /\ TruthyStr(q.meter_serial) => row.meter_serial = q.meter_serial.val
                /\ q.start_date # None => Instant(q.start_date.val) <= t(row)
                /\ q.end_date # None => t(row) <= Instant(q.end_date.val)
            onbound(row) ==
                \/ q.start_date # None /\ t(row) = Instant(q.start_date.val)
                \/ q.end_date # None /\ t(row) = Instant(q.end_date.val)
        IN  \A i \in DOMAIN table :
                (within(table[i]) /\ onbound(table[i])) =>
                    \E j \in DOMAIN q.result : q.result[j] = table[i]

----------------------------------------------------------------------------
(* Counts, and the series side by side *)

\* what does hold of get_record_count: a serial that is a non-empty string
\* counts the rows of the series; None and the empty string count every row
CountIsTruthyFilter ==
    /\ GetRecordCount(table, None) = Len(table)
    /\ GetRecordCount(table, Some("")) = Len(table)
    /\ \A k \in Serials \ {""} : GetRecordCount(table, Some(k)) = Count(table, k)

\* C21: for every serial k, the empty string included, get_record_count(k) is
\* the number of stored rows whose meter_serial is k, and get_record_count()
\* without a serial is the number of all stored rows.
C21_Count ==
    /\ \A k \in Serials \cup {""} : GetRecordCount(table, Some(k)) = Count(table, k)
    /\ GetRecordCount(table, None) = Len(table)

\* the series other than the one the last call of store_records wrote to
OtherSeries == Serials \ {last.meter_serial}

\* C22: a call of store_records for one series leaves every other series as
\* it was: its rows in every field and in their order, its count, its latest
\* interval; and a record of the call whose interval_start is stored for
\* another series only, and not carried by an earlier record of the call, is
\* inserted: a new row of the call's series has it, and the call has counted
\* as inserted every record that met no row of its own series.
C22_Independent ==
    Called =>
        /\ \A s \in OtherSeries :
             /\ WhereSerial(table, s) = WhereSerial(last.before, s)
             /\ Count(table, s) = Count(last.before, s)
             /\ s # "" => GetRecordCount(table, Some(s)) = GetRecordCount(last.before, Some(s))
             /\ GetLatestInterval(table, s) = GetLatestInterval(last.before, s)
        /\ ~last.raised =>
             /\ last.inserted = Cardinality({i \in DOMAIN last.records : ~Collides(i)})
             /\ \A i \in DOMAIN last.records :
                  (/\ ~Collides(i)
                   /\ \E s \in OtherSeries : StartOf(last.records[i]) \in StoredKeys(last.before, s))
                  => \E j \in SeriesRows(table, last.meter_serial) :
                        /\ j > Len(last.before)
                        /\ table[j].interval_start = StartOf(last.records[i])

\* C22's case: the call stored for one series a record whose interval_start
\* another series holds, skipped nothing, and the other series has its row
C22_Witness ==
    /\ Returned
    /\ last.skipped = 0
    /\ last.inserted = Len(last.records)
    /\ \E s \in OtherSeries, i \in DOMAIN last.records :
         /\ StartOf(last.records[i]) \in StoredKeys(last.before, s)
         /\ StartOf(last.records[i]) \in StoredKeys(table, s)
         /\ StartOf(last.records[i]) \in StoredKeys(table, last.meter_serial)
         /\ Count(table, s) = Count(last.before, s)

----------------------------------------------------------------------------
(* The counts a pass reports, and its end *)

\* C23: a pass with --store that has ended with a result reports inserted and
\* skipped that add up to the number of records fetched, and a total that is
\* what get_record_count answers for the meter once store_records has
\* returned, and that is what it answered when the pass began plus inserted;
\* for a meter of non-empty serial these are the numbers of rows of the series.
C23_Counts ==
    PassDone =>
        LET result == pass.result.val
        IN  /\ result.inserted + result.skipped = Len(pass.consumption.val)
            /\ result.total = GetRecordCount(table, Some(PassSerial))
            /\ result.total = GetRecordCount(pass.before, Some(PassSerial)) + result.inserted
            /\ PassSerial # "" =>
                 /\ result.total = Count(table, PassSerial)
                 /\ result.total = Count(pass.before, PassSerial) + result.inserted

\* C23's case: a pass that found rows of another series, stored by an earlier
\* pass of the run, has fetched two records and inserted them, and reports
\* the rows of its own series only
C23_Witness ==
    /\ PassDone
    /\ PassSerial # ""
    /\ Len(pass.consumption.val) = 2
    /\ pass.result.val.inserted = 2
    /\ Len(pass.before) > Count(pass.before, PassSerial)
    /\ pass.result.val.total = Count(pass.before, PassSerial) + 2
    /\ pass.result.val.total < Len(table)

\* a pass is under way: its meter is selected, its date range computed, and
\* get_consumption_data called or returned
PassRunning == pc \in {"fetching", "fetched"}

\* a pass has ended: with a result (the counts of a pass with --store, the
\* number of rows written otherwise) or with an exception
PassEnded ==
    \/ pc = "done" /\ pass.result # None /\ pass.error = None
    \/ pc = "failed" /\ pass.error # None /\ pass.result = None

\* C24: a pass under way ends, with a result or with an exception, whatever
\* batch of records the fetch returns, once get_consumption_data returns or
\* raises.
C24_Terminates == PassRunning ~> PassEnded

\* C24's case: a pass with --store has ended with a result after the loop of
\* store_records went through a batch of the greatest length, inserting a
\* record and skipping one
C24_Witness ==
    /\ PassDone
    /\ PassEnded
    /\ Len(pass.consumption.val) = MaxLen
    /\ pass.result.val.inserted > 0
    /\ pass.result.val.skipped > 0

----------------------------------------------------------------------------
(* Commands without --store *)

\* an export without --store, or a stats, is past its date range
Storeless == ~args.store /\ pc \in {"fetching", "fetched", "done"}

\* C25: an export without --store and a stats never open the database, never
\* read the latest interval and never call store_records or
\* get_record_count; their request starts --days days before now and ends
\* now, whatever the table holds for the meter; and from their start to their
\* end, failed or not, the table is the one they found.
C25_StoreUntouched ==
    ~args.store =>
        /\ last = NoCall
        /\ pass.database = "none"
        /\ pass.latest = None
        /\ \A e \in {"init_db", "latest", "store", "count"} : EventsOf(e) = {}
        /\ pc # "idle" => table = pass.before
        /\ Storeless =>
             /\ pass.request.val.end_date = pass.end_date.val
             /\ pass.request.val.start_date =
                    [hour |-> pass.end_date.val.hour - HoursPerDay * args.days, tz |-> None]

\* C25's case: an export without --store has written its rows while the table
\* holds a reading of the meter later than the start of the request
C25_Witness ==
    /\ Storeless
    /\ pc = "done"
    /\ args.command = "export"
    /\ pass.result.val.exported > 0
    /\ Count(table, PassSerial) > 0
    /\ GetLatestInterval(table, PassSerial) # None
    /\ pass.request.val.start_date # IsoParse(GetLatestInterval(table, PassSerial).val)

----------------------------------------------------------------------------
(* Batches that repeat a key *)

\* the first record of the last call's batch that carries the key
FirstWith(key) ==
    CHOOSE i \in DOMAIN last.records :
        /\ StartOf(last.records[i]) = key
        /\ \A j \in 1..(i - 1) : StartOf(last.records[j]) # key

\* the stored row of the last call's series with the key is the row of the
\* record: its end, its value, the meter type and the time of the call
StoredFrom(key, record) ==
    \E j \in SeriesRows(table, last.meter_serial) :
        /\ table[j].interval_start = key
        /\ table[j].interval_end = Get(record, "endAt", EmptyText)
        /\ table[j].consumption_kwh = Float(Get(record, "value", "0")).val
        /\ table[j].meter_type = last.meter_type
        /\ table[j].created_at = last.created_at

\* C26: a call of store_records that returns has counted as inserted the
\* distinct keys of the batch not stored for the series before the call, and as
\* skipped every other record of the batch; the series holds one row more for
\* each such key, and that row is the row of the first record of the batch
\* that carries the key.
C26_FirstStored ==
    Returned =>
        LET new == KeysOf(last.records) \ StoredKeys(last.before, last.meter_serial)
        IN  /\ last.inserted = Cardinality(new)
            /\ last.skipped = Len(last.records) - last.inserted
            /\ Count(table, last.meter_serial)
                  = Count(last.before, last.meter_serial) + Cardinality(new)
            /\ \A key \in new :
                   /\ Cardinality({j \in SeriesRows(table, last.meter_serial) :
                                      table[j].interval_start = key}) = 1
                   /\ StoredFrom(key, last.records[FirstWith(key)])

\* C26's case: the batch carried a new key twice, with different ends and
\* values; the first record is stored and the second is not
C26_Witness ==
    /\ Returned
    /\ Len(last.records) = 2
    /\ StartOf(last.records[1]) = StartOf(last.records[2])
    /\ StartOf(last.records[1]) \notin StoredKeys(last.before, last.meter_serial)
    /\ last.inserted = 1
    /\ last.skipped = 1
    /\ StoredFrom(StartOf(last.records[1]), last.records[1])
    /\ ~StoredFrom(StartOf(last.records[1]), last.records[2])

----------------------------------------------------------------------------
(* A pass that resumes on a part of a batch *)

\* the record has an interval_start within the date range of the request
InWindow(record, request) ==
    /\ "startAt" \in DOMAIN record
    /\ Instant(request.start_date) <= InstantOf(record.startAt)
    /\ InstantOf(record.startAt) <= Instant(request.end_date)

\* the fetch of the running pass returned the records the remote account
\* holds within the date range of the request, and no other
ExactFetch ==
    {pass.consumption.val[i] : i \in DOMAIN pass.consumption.val}
        = {r \in remote.records : InWindow(r, pass.request.val)}

\* a pass with --store that found a latest interval, fetched what lies in its
\* date range and stored it
Resumed ==
    /\ PassDone
    /\ TruthyText(pass.latest)
    /\ ExactFetch

\* the batches of an earlier fetch of which the pass found the first k
\* records, 0 < k < len, and nothing else stored for its series: records with
\* an interval_start not after now
PartStored(B, k) ==
    /\ k \in 1..(Len(B) - 1)
    /\ \A i \in DOMAIN B :
          /\ "startAt" \in DOMAIN B[i]
          /\ InstantOf(B[i].startAt) <= Instant(pass.end_date.val)
    /\ PrefixStored(pass.before, PassSerial, B, k)

\* no record after the first k is earlier than the latest interval stored
LatestFirst(B, k) ==
    \A i \in (k + 1)..Len(B) :
        InstantOf(GetLatestInterval(pass.before, PassSerial).val) <= InstantOf(B[i].startAt)

----------------------------------------------------------------------------
(* A call of store_records that raises *)

\* the first record of the last call's batch whose value is no number
FirstBad ==
    CHOOSE i \in DOMAIN last.records :
        /\ ~Float(Get(last.records[i], "value", "0")).ok
        /\ \A j \in 1..(i - 1) : Float(Get(last.records[j], "value", "0")).ok

\* C28: a call of store_records raises exactly when a record of the batch has
\* a value that float() refuses, and a call that has raised has stored no
\* record of the batch, those before the refused one included: the table is
\* the one before the call, row for row.
C28_AllOrNothing ==
    Called =>
        /\ last.raised <=> ~Numeric(last.records)
        /\ last.raised =>
             /\ table = last.before
             /\ \A i \in 1..(FirstBad - 1) :
                    ~Collides(i) =>
                        StartOf(last.records[i]) \notin StoredKeys(table, last.meter_serial)

\* C28's case: the call raised on its second record after the INSERT of its
\* first, a new key, and the key is not stored
C28_Witness ==
    /\ Called
    /\ last.raised
    /\ Len(last.records) = 2
    /\ FirstBad = 2
    /\ ~Collides(1)
    /\ StartOf(last.records[1]) \notin StoredKeys(table, last.meter_serial)
    /\ Len(table) > 0
    /\ table = last.before

----------------------------------------------------------------------------
(* Two passes at a time *)

\* the command of process p has come back from store_records with its counts
Stored(p) == peers.proc[p].pc \in {"stored", "done"}

\* what the command of process p reports as inserted, once it has
Inserted(p) == IF Stored(p) THEN peers.proc[p].result.val.inserted ELSE 0

\* the rows of the series with the key
RowsOf(rows, serial, key) ==
    {i \in SeriesRows(rows, serial) : rows[i].interval_start = key}

\* C29: however the steps of two export --store commands on one database file
\* and one series interleave, the table never holds two rows of one
\* (meter_serial, interval_start); once a command is back from store_records
\* every key it fetched is stored exactly once; and the rows and the keys
\* added to the series since the commands began are as many as the commands
\* back from store_records report as inserted, a command that failed having
\* added none.
C29_Interleaved ==
    /\ \A i, j \in DOMAIN table :
         (/\ table[i].meter_serial = table[j].meter_serial
          /\ table[i].interval_start = table[j].interval_start) => i = j
    /\ \A p \in DOMAIN peers.proc :
         Stored(p) =>
            \A key \in KeysOf(peers.proc[p].consumption.val) :
                Cardinality(RowsOf(table, peers.proc[p].selected.val.serial, key)) = 1
    /\ \A p \in DOMAIN peers.proc :
         peers.proc[p].selected # None =>
            LET s == peers.proc[p].selected.val.serial
            IN  /\ Count(table, s) - Count(peers.before, s) = Inserted(1) + Inserted(2)
                /\ Cardinality(StoredKeys(table, s) \ StoredKeys(peers.before, s))
                      = Inserted(1) + Inserted(2)
                /\ Len(table) - Len(peers.before) = Inserted(1) + Inserted(2)

\* C29's case: both commands read the latest interval of the empty series
\* before either stored, fetched batches of distinct keys with a key in
\* common, and both stored: each inserted a record and one skipped the key
\* the other had inserted
C29_Witness ==
    /\ peers.before = <<>>
    /\ \A p \in DOMAIN peers.proc :
         /\ peers.proc[p].pc = "done"
         /\ peers.proc[p].latest = None
         /\ DistinctKeys(peers.proc[p].consumption.val)
         /\ peers.proc[p].result.val.inserted > 0
    /\ DOMAIN peers.proc = Procs
    /\ \E p \in Procs : peers.proc[p].result.val.skipped > 0
    /\ Len(table) = 3

----------------------------------------------------------------------------
(* The latest interval over time *)

\* the start of the date range a pass with --store plans for the series on
\* the rows
ResumeStart(rows, serial) ==
    PlanWindow(rows, TRUE, serial, args.days, Now(clock)).start_date

\* what does hold of get_latest_interval over time: once it returns a text
\* for a series it returns a text ever after, and never one below it in the
\* order of the texts
LatestGrowsAsText ==
    [][\A s \in Serials :
          LET latest == GetLatestInterval(table, s)
              later == GetLatestInterval(table', s)
          IN  latest # None => (later # None /\ TextLeq(latest.val, later.val))]_vars

\* C30: over the steps of passes and their calls of store_records, once
\* get_latest_interval returns an interval for a series it returns one ever
\* after, never an earlier one, and the start of the date range a pass would
\* resume from is never earlier than it was.
C30_Monotone ==
    [][\A s \in Serials :
          LET latest == GetLatestInterval(table, s)
              later == GetLatestInterval(table', s)
          IN  /\ latest # None => later # None
              /\ TruthyText(latest) =>
                    /\ TruthyText(later)
                    /\ InstantOf(latest.val) <= InstantOf(later.val)
                    /\ Instant(ResumeStart(table, s)) <= Instant(ResumeStart(table', s))]_vars

====
